---- MODULE Spec2Model ----
(***************************************************************************)
(* daikawa: a thermostat control agent (src/src/main.rs).                  *)
(*                                                                         *)
(* Times of day (chrono::NaiveTime) are integers: milliseconds since       *)
(* midnight, 0 .. DayMs-1.  Durations (chrono::Duration) are integers in   *)
(* milliseconds; num_seconds truncates them to whole seconds.              *)
(* Temperatures read from a file or a reply are integers in tenths of a    *)
(* degree, standing for the f64 nearest to that decimal; the sensor's      *)
(* average and the setpoints computed from it are f64, bit for bit.        *)
(* A "HH:MM" string is the pair <<HH, MM>>.                                *)
(***************************************************************************)
EXTENDS Integers, Sequences, FiniteSets, TLC

VARIABLES
    pc,            \* position of main()
    file,          \* the configuration file on disk (input)
    args,          \* command-line flags (input)
    config,        \* Config loaded by read_config, flags applied
    range,         \* TimeRange built by parse_time_range
    clock,         \* wall clock, ms of day: what Local::now() returns
    now_t,         \* main loop: now_t
    next,          \* main loop: next
    controlling,   \* main loop: controlling (= in_range)
    interval_min,  \* main loop: interval_min
    sleep_sec,     \* main loop: sleep_sec
    skyport,       \* the daikin::SkyPort session
    calls,         \* network operations of the current iteration, in order
    telemetry,     \* TempLog records printed in the current iteration
    iter           \* loop iterations completed

vars == <<pc, file, args, config, range, clock, now_t, next, controlling,
          interval_min, sleep_sec, skyport, calls, telemetry, iter>>

----------------------------------------------------------------------------
(* Units *)

MsPerSec == 1000
\* Duration::hours(24), in milliseconds
DayMs == 86400000

\* chrono::Duration::num_seconds: whole seconds, truncated toward zero
num_seconds(d) == IF d >= 0 THEN d \div MsPerSec ELSE -((-d) \div MsPerSec)

\* NaiveTime::parse_from_str(s, "%R"): "HH:MM" to a time of day, Err otherwise
ParseErr == -1
parse_from_str(s) ==
    IF s[1] \in 0..23 /\ s[2] \in 0..59
    THEN (s[1] * 3600 + s[2] * 60) * MsPerSec
    ELSE ParseErr

----------------------------------------------------------------------------
(* TimeRange *)

Contiguous(begin, end) == [tag |-> "Contiguous", f0 |-> begin, f1 |-> end]
Split(end, begin) == [tag |-> "Split", f0 |-> end, f1 |-> begin]
NoRange == [tag |-> "None", f0 |-> 0, f1 |-> 0]
Panic == [tag |-> "Panic", f0 |-> 0, f1 |-> 0]

\* a mutant of contains: the end of a Contiguous range is exclusive
contains_open_end(self, t) ==
    IF self.tag = "Contiguous"
    THEN self.f0 <= t /\ t < self.f1
    ELSE t <= self.f0 \/ self.f1 <= t

\* a mutant of contains: a Split range needs both comparisons
contains_split_and(self, t) ==
    IF self.tag = "Contiguous"
    THEN self.f0 <= t /\ t <= self.f1
    ELSE t <= self.f0 /\ self.f1 <= t

contains(self, t) ==
    IF self.tag = "Contiguous"
    THEN self.f0 <= t /\ t <= self.f1
    ELSE t <= self.f0 \/ self.f1 <= t

\* a mutant of to_next: the second comparison is <= instead of <
to_next_le(t, begin, end) ==
    IF t < begin THEN num_seconds(begin - t)
    ELSE IF t <= end THEN num_seconds(end - t)
    ELSE num_seconds(DayMs - (t - begin))

\* a mutant of to_next: the wrap-around branch measures from end, not begin
to_next_from_end(t, begin, end) ==
    IF t < begin THEN num_seconds(begin - t)
    ELSE IF t < end THEN num_seconds(end - t)
    ELSE num_seconds(DayMs - (t - end))

to_next(t, begin, end) ==
    IF t < begin THEN num_seconds(begin - t)
    ELSE IF t < end THEN num_seconds(end - t)
    ELSE num_seconds(DayMs - (t - begin))

next_transition(t, r) ==
    IF r.tag = "Contiguous"
    THEN to_next(t, r.f0, r.f1)
    ELSE to_next(t, r.f0, r.f1)

\* a mutant of parse_time_range: the comparison is <= instead of <
parse_time_range_le(begins, ends) ==
    LET begint == parse_from_str(begins)
        endt == parse_from_str(ends)
    IN  IF begint = ParseErr \/ endt = ParseErr THEN Panic
        ELSE IF begint <= endt THEN Contiguous(begint, endt)
        ELSE Split(endt, begint)

\* unwrap() of a failed parse panics
parse_time_range(begins, ends) ==
    LET begint == parse_from_str(begins)
        endt == parse_from_str(ends)
    IN  IF begint = ParseErr \/ endt = ParseErr THEN Panic
        ELSE IF begint < endt THEN Contiguous(begint, endt)
        ELSE Split(endt, begint)

\* main loop: next = next_transition(&now_t, &range) + 15
SkewSec == 15

\* a mutant of padded_next: the pad is forgotten
padded_next_no_skew(t, r) == next_transition(t, r)

padded_next(t, r) == next_transition(t, r) + SkewSec

----------------------------------------------------------------------------
(* Values before construction *)

NoConfig == [target_temp_heat |-> 0, target_temp_cool |-> 0,
             control_start |-> <<0, 0>>, control_end |-> <<0, 0>>,
             dry_run |-> FALSE, oneshot |-> FALSE]
NoFile == [readable |-> FALSE, target_temp_heat |-> 0, target_temp_cool |-> 0,
           control_start |-> <<0, 0>>, control_end |-> <<0, 0>>]
NoArgs == [parses |-> TRUE, help |-> FALSE,
           dry_run |-> FALSE, oneshot |-> FALSE, config_test |-> FALSE]
NoDeviceData == [csp_home |-> 0, hsp_home |-> 0, temp_indoor |-> 0,
                 geofencing_away |-> FALSE, temp_outdoor |-> 0]
NoSession == [email |-> "", access_token |-> "", refresh_token |-> "",
              device_id |-> "", device_data |-> NoDeviceData]

----------------------------------------------------------------------------
(* enum Error, and the reply of one webapi::access call *)

Ok == [kind |-> "Ok", code |-> 0]
HTTPError == [kind |-> "HTTPError", code |-> 0]
APIError(code) == [kind |-> "APIError", code |-> code]
GenericError == [kind |-> "GenericError", code |-> 0]
\* an unwrap() of an Err, an index out of range or panic!(): the thread panics
Panicked == [kind |-> "Panic", code |-> 0]

ERROR_STALE_DATA == 1000

\* webapi::access: Err(curl::Error), or Ok((status, body)); `parses` says
\* whether serde_json accepts the body as the type the caller asks for
TransportFailure == [transport_ok |-> FALSE, status |-> 0,
                     body |-> [parses |-> FALSE]]
Reply(status, body) == [transport_ok |-> TRUE, status |-> status, body |-> body]
Unparseable == [parses |-> FALSE]
\* stands for the reply of a call that is never made
NoCall == [transport_ok |-> FALSE, status |-> 0, body |-> [parses |-> FALSE],
           unused |-> TRUE]

Call(op, res, arg) == [op |-> op, res |-> res, arg |-> arg]

----------------------------------------------------------------------------
(* f64 temperatures *)

\* The temperatures the program computes are f64: every operation returns the
\* double nearest to the exact result (ties to the even significand), and the
\* next operation starts from that double.  A double is kept here as
\* [neg, m, e], standing for (-1)^neg * m * 2^e with 2^52 <= m < 2^53, or
\* m = 0 for zero.  The significand does not fit the integers of the model
\* checker, so naturals of any size are little-endian sequences of limbs
\* below 2^15 with no zero at the top; zero is the empty sequence.
\* Infinities, NaN and subnormals are outside the temperatures handled here.

LimbBits == 15
Limb == 2 ^ LimbBits
MantBits == 53

RECURSIVE Pow2(_)
Pow2(s) == IF s = 0 THEN 1 ELSE 2 * Pow2(s - 1)

RECURSIVE Trim(_)
Trim(a) ==
    IF a # <<>> /\ a[Len(a)] = 0 THEN Trim(SubSeq(a, 1, Len(a) - 1)) ELSE a

Rest(a) == IF a = <<>> THEN <<>> ELSE Tail(a)
Low(a) == IF a = <<>> THEN 0 ELSE a[1]

RECURSIVE Big(_)
Big(n) == IF n = 0 THEN <<>> ELSE <<n % Limb>> \o Big(n \div Limb)

RECURSIVE Small(_)
Small(a) == IF a = <<>> THEN 0 ELSE a[1] + Limb * Small(Tail(a))

\* a + b + c, c a carry below Limb
RECURSIVE BigAdd(_, _, _)
BigAdd(a, b, c) ==
    IF a = <<>> /\ b = <<>> THEN Big(c)
    ELSE LET x == Low(a) + Low(b) + c
         IN  <<x % Limb>> \o BigAdd(Rest(a), Rest(b), x \div Limb)

\* a - b - c for a >= b + c, before trimming
RECURSIVE BigSubLimbs(_, _, _)
BigSubLimbs(a, b, c) ==
    IF a = <<>> THEN <<>>
    ELSE LET x == a[1] - Low(b) - c
         IN  IF x < 0 THEN <<x + Limb>> \o BigSubLimbs(Tail(a), Rest(b), 1)
             ELSE <<x>> \o BigSubLimbs(Tail(a), Rest(b), 0)

BigSub(a, b) == Trim(BigSubLimbs(a, b, 0))

\* -1, 0, 1 as a < b, a = b, a > b
RECURSIVE BigCmp(_, _)
BigCmp(a, b) ==
    IF Len(a) # Len(b) THEN (IF Len(a) < Len(b) THEN -1 ELSE 1)
    ELSE IF a = <<>> THEN 0
    ELSE IF a[Len(a)] # b[Len(b)] THEN (IF a[Len(a)] < b[Len(b)] THEN -1 ELSE 1)
    ELSE BigCmp(SubSeq(a, 1, Len(a) - 1), SubSeq(b, 1, Len(b) - 1))

\* a * k + c for k <= Limb
RECURSIVE BigMul(_, _, _)
BigMul(a, k, c) ==
    IF a = <<>> THEN Big(c)
    ELSE LET x == a[1] * k + c
         IN  <<x % Limb>> \o BigMul(Tail(a), k, x \div Limb)

\* quotient (before trimming) and remainder of a by d, 0 < d <= Limb
\* one step of the long division: up is the result for the limbs above low
DivStep(up, low, d) ==
    [q |-> <<(up.r * Limb + low) \div d>> \o up.q, r |-> (up.r * Limb + low) % d]

RECURSIVE BigDivLimbs(_, _)
BigDivLimbs(a, d) ==
    IF a = <<>> THEN [q |-> <<>>, r |-> 0]
    ELSE DivStep(BigDivLimbs(Tail(a), d), a[1], d)

Trimmed(qr) == [q |-> Trim(qr.q), r |-> qr.r]

BigDiv(a, d) == Trimmed(BigDivLimbs(a, d))

Zeros(k) == [i \in 1..k |-> 0]

\* a * 2^s
Shl(a, s) ==
    IF a = <<>> THEN <<>>
    ELSE Zeros(s \div LimbBits) \o BigMul(a, Pow2(s % LimbBits), 0)

\* a \div 2^s
Shr(a, s) ==
    IF s \div LimbBits >= Len(a) THEN <<>>
    ELSE BigDiv(SubSeq(a, s \div LimbBits + 1, Len(a)), Pow2(s % LimbBits)).q

RECURSIVE Bits(_)
Bits(n) == IF n = 0 THEN 0 ELSE 1 + Bits(n \div 2)

BitLen(a) ==
    IF a = <<>> THEN 0 ELSE LimbBits * (Len(a) - 1) + Bits(a[Len(a)])

Odd(a) == Low(a) % 2 = 1

\* q or q + 1, for a quotient q whose remainder compares as c with one half
Nearest(q, c) ==
    IF c > 0 \/ (c = 0 /\ Odd(q)) THEN BigAdd(q, <<>>, 1) ELSE q

\* a / 2^s rounded to the nearest natural, a tie to the even one, given
\* q = a \div 2^s
RoundRem(a, s, q) ==
    Nearest(q, BigCmp(BigSub(a, Shl(q, s)), Shl(<<1>>, s - 1)))

RoundShr(a, s) == IF s = 0 THEN a ELSE RoundRem(a, s, Shr(a, s))

F64Zero == [neg |-> FALSE, m |-> <<>>, e |-> 0]

\* the double of a rounded significand q of MantBits bits, or of one bit
\* more when the rounding carried into the next power of two
Carried(neg, q, e) ==
    IF BitLen(q) > MantBits
    THEN [neg |-> neg, m |-> Shr(q, 1), e |-> e + 1]
    ELSE [neg |-> neg, m |-> q, e |-> e]

\* the double nearest to (-1)^neg * a * 2^e, for a of len bits
Fit(neg, a, e, len) ==
    IF len <= MantBits
    THEN [neg |-> neg, m |-> Shl(a, MantBits - len), e |-> e - (MantBits - len)]
    ELSE Carried(neg, RoundShr(a, len - MantBits), e + (len - MantBits))

\* the double nearest to (-1)^neg * a * 2^e
F64Round(neg, a, e) ==
    IF a = <<>> THEN F64Zero ELSE Fit(neg, a, e, BitLen(a))

\* the double nearest to n / d, as a decimal literal or a number of a JSON or
\* TOML text is read: n an integer, 0 < d <= Limb
DivGuard == 75
\* a quotient with one more bit below it, set when the division left a
\* remainder: enough to round the exact quotient
Sticky(qr) == BigAdd(qr.q, qr.q, IF qr.r = 0 THEN 0 ELSE 1)

F64(n, d) ==
    F64Round(n < 0,
             Sticky(BigDiv(Shl(Big(IF n < 0 THEN -n ELSE n), DivGuard), d)),
             -(DivGuard + 1))

\* x / n for a count n, 0 < n <= Limb: `sum / (len as f64)`
f64_div(x, n) ==
    F64Round(x.neg, Sticky(BigDiv(Shl(x.m, DivGuard), n)), x.e - (DivGuard + 1))

\* x + y.  An operand more than AlignMax binary places below the other only
\* decides the side of a tie it cannot reach: it counts as one unit that far
\* down.
AlignMax == 64
\* the exponent the two significands are aligned to
AlignExp(ex, ey) ==
    IF ex <= ey
    THEN (IF ey - ex > AlignMax THEN ey - AlignMax ELSE ex)
    ELSE (IF ex - ey > AlignMax THEN ex - AlignMax ELSE ey)

\* the significand of x in units of 2^e
AlignTo(x, e) == IF x.e < e THEN <<1>> ELSE Shl(x.m, x.e - e)

\* (-1)^xneg * a + (-1)^yneg * b in units of 2^e, where c compares a with b
SignedSum(xneg, a, yneg, b, e, c) ==
    F64Round(IF xneg = yneg \/ c > 0 THEN xneg ELSE yneg,
             IF xneg = yneg THEN BigAdd(a, b, 0)
             ELSE IF c > 0 THEN BigSub(a, b)
             ELSE BigSub(b, a),
             e)

AlignedSum(xneg, a, yneg, b, e) == SignedSum(xneg, a, yneg, b, e, BigCmp(a, b))

ExpSum(x, y, e) == AlignedSum(x.neg, AlignTo(x, e), y.neg, AlignTo(y, e), e)

f64_add(x, y) ==
    IF x.m = <<>> THEN y
    ELSE IF y.m = <<>> THEN x
    ELSE ExpSum(x, y, AlignExp(x.e, y.e))

f64_neg(x) == IF x.m = <<>> THEN x ELSE [x EXCEPT !.neg = ~x.neg]

f64_sub(x, y) == f64_add(x, f64_neg(y))

Signed(neg, n) == IF neg THEN -n ELSE n

\* x rounded to the nearest integer, a tie to the even one, where a is the
\* significand of x times the scale
ScaledBy(x, a) ==
    Signed(x.neg, Small(IF x.e >= 0 THEN Shl(a, x.e) ELSE RoundShr(a, -x.e)))

\* x * k rounded to the nearest integer, a tie to the even one: the digits
\* `{:.1}` prints for k = 10, read as one number
Scaled(x, k) == ScaledBy(x, BigMul(x.m, k, 0))

\* format!("{:.1}", x), in tenths
format_1(x) == Scaled(x, 10)

----------------------------------------------------------------------------
(* mod daikin: SkyPort *)

\* a mutant of do_sync: a failed attempt resets the cached device data
do_sync_resets_on_error(self, resp) ==
    IF ~resp.transport_ok THEN
        [self |-> [self EXCEPT !.device_data = NoDeviceData], res |-> HTTPError,
         calls |-> <<Call("do_sync", HTTPError, <<>>)>>]
    ELSE IF resp.status # 200 THEN
        [self |-> [self EXCEPT !.device_data = NoDeviceData],
         res |-> APIError(resp.status),
         calls |-> <<Call("do_sync", APIError(resp.status), <<>>)>>]
    ELSE IF ~resp.body.parses THEN
        [self |-> [self EXCEPT !.device_data = NoDeviceData],
         res |-> GenericError,
         calls |-> <<Call("do_sync", GenericError, <<>>)>>]
    ELSE
        [self |-> [self EXCEPT !.device_data = resp.body.data], res |-> Ok,
         calls |-> <<Call("do_sync", Ok, <<>>)>>]

do_sync(self, resp) ==
    IF ~resp.transport_ok THEN
        [self |-> self, res |-> HTTPError,
         calls |-> <<Call("do_sync", HTTPError, <<>>)>>]
    ELSE IF resp.status # 200 THEN
        [self |-> self, res |-> APIError(resp.status),
         calls |-> <<Call("do_sync", APIError(resp.status), <<>>)>>]
    ELSE IF ~resp.body.parses THEN
        [self |-> self, res |-> GenericError,
         calls |-> <<Call("do_sync", GenericError, <<>>)>>]
    ELSE
        [self |-> [self EXCEPT !.device_data = resp.body.data], res |-> Ok,
         calls |-> <<Call("do_sync", Ok, <<>>)>>]

\* login: the session it builds has no device id and default device data
login(resp) ==
    IF ~resp.transport_ok THEN
        [self |-> NoSession, res |-> HTTPError,
         calls |-> <<Call("login", HTTPError, <<>>)>>]
    ELSE IF resp.status # 200 THEN
        [self |-> NoSession, res |-> APIError(resp.status),
         calls |-> <<Call("login", APIError(resp.status), <<>>)>>]
    ELSE IF ~resp.body.parses \/ ~resp.body.has_refresh_token THEN
        [self |-> NoSession, res |-> GenericError,
         calls |-> <<Call("login", GenericError, <<>>)>>]
    ELSE
        [self |-> [email |-> "user",
                   access_token |-> resp.body.access_token,
                   refresh_token |-> resp.body.refresh_token,
                   device_id |-> "", device_data |-> NoDeviceData],
         res |-> Ok,
         calls |-> <<Call("login", Ok, <<>>)>>]

\* SkyPort::new, the GET of the device list: resp.body.ids are the ids listed
device_list(self, resp) ==
    IF ~resp.transport_ok THEN
        [self |-> self, res |-> HTTPError,
         calls |-> <<Call("devices", HTTPError, <<>>)>>]
    ELSE IF resp.status # 200 THEN
        [self |-> self, res |-> APIError(resp.status),
         calls |-> <<Call("devices", APIError(resp.status), <<>>)>>]
    ELSE IF ~resp.body.parses THEN
        [self |-> self, res |-> GenericError,
         calls |-> <<Call("devices", GenericError, <<>>)>>]
    ELSE IF resp.body.ids = <<>> THEN
        [self |-> self, res |-> APIError(404),
         calls |-> <<Call("devices", APIError(404), <<>>)>>]
    ELSE
        [self |-> [self EXCEPT !.device_id = resp.body.ids[1]], res |-> Ok,
         calls |-> <<Call("devices", Ok, <<>>)>>]

\* a mutant of SkyPort_new: a failed first do_sync is not fatal
SkyPort_new_sync_not_fatal(l, d, r) ==
    LET a == login(l) IN
    IF a.res # Ok THEN a
    ELSE
    LET b == device_list(a.self, d) IN
    IF b.res # Ok THEN [b EXCEPT !.calls = a.calls \o b.calls]
    ELSE
    LET c == do_sync(b.self, r) IN
    [self |-> c.self, res |-> Ok, calls |-> a.calls \o b.calls \o c.calls]

\* SkyPort::new: l answers the login, d the device list, r the first do_sync
SkyPort_new(l, d, r) ==
    LET a == login(l) IN
    IF a.res # Ok THEN a
    ELSE
    LET b == device_list(a.self, d) IN
    IF b.res # Ok THEN [b EXCEPT !.calls = a.calls \o b.calls]
    ELSE
    LET c == do_sync(b.self, r) IN
    [self |-> c.self, res |-> c.res, calls |-> a.calls \o b.calls \o c.calls]

refresh_token(self, resp) ==
    IF ~resp.transport_ok THEN
        [self |-> self, res |-> HTTPError,
         calls |-> <<Call("refresh_token", HTTPError, <<>>)>>]
    ELSE IF resp.status # 200 THEN
        [self |-> self, res |-> APIError(resp.status),
         calls |-> <<Call("refresh_token", APIError(resp.status), <<>>)>>]
    ELSE IF ~resp.body.parses THEN
        [self |-> self, res |-> Panicked,
         calls |-> <<Call("refresh_token", Panicked, <<>>)>>]
    ELSE
        [self |-> [self EXCEPT !.access_token = resp.body.access_token],
         res |-> Ok,
         calls |-> <<Call("refresh_token", Ok, <<>>)>>]

\* a mutant of sync: every failure of the first do_sync, not only a 401,
\* leads to a refresh and a second attempt
sync_retries_any_error(self, r1, q, r2) ==
    LET a == do_sync(self, r1) IN
    IF a.res # Ok THEN
        LET b == refresh_token(self, q) IN
        IF b.res # Ok THEN
            [self |-> b.self, res |-> b.res, calls |-> a.calls \o b.calls]
        ELSE
            LET c == do_sync(b.self, r2) IN
            [self |-> c.self, res |-> c.res,
             calls |-> a.calls \o b.calls \o c.calls]
    ELSE a

\* sync: r1 answers the first do_sync, q the refresh_token, r2 the second do_sync
sync(self, r1, q, r2) ==
    LET a == do_sync(self, r1) IN
    IF a.res # Ok THEN
        IF a.res = APIError(401) THEN
            LET b == refresh_token(self, q) IN
            IF b.res # Ok THEN
                [self |-> b.self, res |-> b.res, calls |-> a.calls \o b.calls]
            ELSE
                LET c == do_sync(b.self, r2) IN
                [self |-> c.self, res |-> c.res,
                 calls |-> a.calls \o b.calls \o c.calls]
        ELSE a
    ELSE a

get_temp_indoor(self) == self.device_data.temp_indoor
get_heat_setpoint(self) == self.device_data.hsp_home
get_cool_setpoint(self) == self.device_data.csp_home
get_geofencing_away(self) == self.device_data.geofencing_away
get_temp_outdoor(self) == self.device_data.temp_outdoor

\* do_set_setpoints: the call is logged with what its PUT body carries,
\* <<hspHome, cspHome, schedOverrideDuration>>, the setpoints in tenths
do_set_setpoints(self, heat, cool, duration, resp) ==
    LET body == <<format_1(heat), format_1(cool), duration>> IN
    IF ~resp.transport_ok THEN
        [self |-> self, res |-> HTTPError,
         calls |-> <<Call("do_set_setpoints", HTTPError, body)>>]
    ELSE IF resp.status # 200 THEN
        [self |-> self, res |-> APIError(resp.status),
         calls |-> <<Call("do_set_setpoints", APIError(resp.status), body)>>]
    ELSE
        [self |-> self, res |-> Ok,
         calls |-> <<Call("do_set_setpoints", Ok, body)>>]

\* set_setpoints: w1 answers the first PUT, q the refresh_token, w2 the second PUT
set_setpoints(self, heat, cool, duration, w1, q, w2) ==
    LET a == do_set_setpoints(self, heat, cool, duration, w1) IN
    IF a.res # Ok THEN
        IF a.res = APIError(401) THEN
            LET b == refresh_token(self, q) IN
            IF b.res # Ok THEN
                [self |-> b.self, res |-> b.res, calls |-> a.calls \o b.calls]
            ELSE
                LET c == do_set_setpoints(b.self, heat, cool, duration, w2) IN
                [self |-> c.self, res |-> c.res,
                 calls |-> a.calls \o b.calls \o c.calls]
        ELSE a
    ELSE a

----------------------------------------------------------------------------
(* mod awair *)

\* awair::get_devices, which is all of Awair::new that can fail;
\* resp.body.devices is the number of devices listed
get_devices(resp) ==
    IF ~resp.transport_ok THEN
        [res |-> HTTPError, calls |-> <<Call("get_devices", HTTPError, <<>>)>>]
    ELSE IF resp.status # 200 THEN
        [res |-> APIError(resp.status),
         calls |-> <<Call("get_devices", APIError(resp.status), <<>>)>>]
    ELSE IF ~resp.body.parses THEN
        [res |-> Panicked, calls |-> <<Call("get_devices", Panicked, <<>>)>>]
    ELSE IF resp.body.devices = 0 THEN
        [res |-> APIError(1404),
         calls |-> <<Call("get_devices", APIError(1404), <<>>)>>]
    ELSE
        [res |-> Ok, calls |-> <<Call("get_devices", Ok, <<>>)>>]

\* chrono::Duration::num_minutes: whole minutes, truncated toward zero
num_minutes(d) == IF d >= 0 THEN d \div 60000 ELSE -((-d) \div 60000)

\* A Record of the reply is [ts_ok, age_ms, has_temp, value]: whether its
\* timestamp parses as RFC 3339, how long before Local::now() it lies, whether
\* its sensors hold a "temp" entry, and that entry's value.

\* `sum += get_temp(v)` from `let mut sum = 0.0`, in the order of the reply;
\* the "temp" value of a record is a number of the JSON text, given in tenths
RECURSIVE sum_temp(_)
sum_temp(data) ==
    IF data = <<>> THEN F64Zero
    ELSE f64_add(sum_temp(SubSeq(data, 1, Len(data) - 1)),
                 F64(data[Len(data)].value, 10))

\* average_temp: `sum / (data.data.len() as f64)`; awair::get_temp panics on
\* a record with no "temp" entry
average_temp(data) == f64_div(sum_temp(data), Len(data))

StaleMinutes == 15

\* Awair::get_temp
get_temp(resp) ==
    IF ~resp.transport_ok THEN
        [res |-> HTTPError, value |-> 0,
         calls |-> <<Call("get_temp", HTTPError, <<>>)>>]
    ELSE IF resp.status # 200 THEN
        [res |-> APIError(resp.status), value |-> 0,
         calls |-> <<Call("get_temp", APIError(resp.status), <<>>)>>]
    ELSE IF ~resp.body.parses THEN
        [res |-> GenericError, value |-> 0,
         calls |-> <<Call("get_temp", GenericError, <<>>)>>]
    ELSE IF resp.body.data = <<>> \/ ~resp.body.data[1].ts_ok THEN
        [res |-> Panicked, value |-> 0,
         calls |-> <<Call("get_temp", Panicked, <<>>)>>]
    ELSE IF num_minutes(resp.body.data[1].age_ms) > StaleMinutes THEN
        [res |-> APIError(ERROR_STALE_DATA), value |-> 0,
         calls |-> <<Call("get_temp", APIError(ERROR_STALE_DATA),
                          <<resp.body.data[1].age_ms>>)>>]
    ELSE IF \E i \in 1..Len(resp.body.data) : ~resp.body.data[i].has_temp THEN
        [res |-> Panicked, value |-> 0,
         calls |-> <<Call("get_temp", Panicked, <<resp.body.data[1].age_ms>>)>>]
    ELSE
        [res |-> Ok, value |-> average_temp(resp.body.data),
         calls |-> <<Call("get_temp", Ok, <<resp.body.data[1].age_ms>>)>>]

----------------------------------------------------------------------------
(* Control *)

\* a mutant of calc_new_setpoints: the offset is added instead of subtracted
calc_new_setpoints_plus(atemp, dtemp, target_heat, target_cool) ==
    LET diff == f64_sub(atemp, F64(dtemp, 10))
    IN  <<f64_add(F64(target_heat, 10), diff),
          f64_add(F64(target_cool, 10), diff)>>

\* a mutant of calc_new_setpoints: only the heat setpoint is shifted
calc_new_setpoints_heat_only(atemp, dtemp, target_heat, target_cool) ==
    LET diff == f64_sub(atemp, F64(dtemp, 10))
    IN  <<f64_sub(F64(target_heat, 10), diff), F64(target_cool, 10)>>

\* calc_new_setpoints: atemp is the f64 that awair.get_temp() returned; dtemp
\* and the targets are numbers of the thermostat's reply and of the
\* configuration file, given in tenths; the result is a pair of f64
calc_new_setpoints(atemp, dtemp, target_heat, target_cool) ==
    LET diff == f64_sub(atemp, F64(dtemp, 10))
        new_hsp == f64_sub(F64(target_heat, 10), diff)
        new_csp == f64_sub(F64(target_cool, 10), diff)
    IN  <<new_hsp, new_csp>>

\* do_control: let default = 15; let retry = 5 (minutes)
DefaultMin == 15
RetryMin == 5

TempLog(cfg, atemp, dtemp, sky, new_hsp, new_csp, execute) ==
    [target_temp_heat |-> cfg.target_temp_heat,
     target_temp_cool |-> cfg.target_temp_cool,
     awair_temp |-> atemp,
     daikin_indoor_temp |-> dtemp,
     daikin_outdoor_temp |-> get_temp_outdoor(sky),
     current_heat_setpoint |-> get_heat_setpoint(sky),
     current_cool_setpoint |-> get_cool_setpoint(sky),
     new_heat_setpoint |-> new_hsp,
     new_cool_setpoint |-> new_csp,
     execute_control |-> execute]

\* `let execute = !(away || config.dry_run)`
\* a mutant of execute_control: dry-run is not looked at
execute_control_ignores_dry_run(away, dry_run) == ~away

execute_control(away, dry_run) == ~(away \/ dry_run)

Outcome(sky, ret, cs, logs, panic) ==
    [skyport |-> sky, ret |-> ret, calls |-> cs, telemetry |-> logs,
     panic |-> panic]

\* do_control with its three error returns and its logging as parameters:
\* k.sync_ret, k.temp_ret, k.set_ret are what it returns when sync, get_temp
\* or set_setpoints fails, with k.relog it prints the record once more
\* after set_setpoints, and with k.presync it reads the device temperature
\* of the session as it was before sync.  Only the mutants below use it.
do_control_variant(sky0, cfg, e, k) ==
    LET s == sync(sky0, e.s1, e.sq, e.s2) IN
    IF s.res = Panicked THEN Outcome(s.self, 0, s.calls, <<>>, TRUE)
    ELSE IF s.res # Ok THEN Outcome(s.self, k.sync_ret, s.calls, <<>>, FALSE)
    ELSE
    LET a == get_temp(e.g) IN
    IF a.res = Panicked THEN Outcome(s.self, 0, s.calls \o a.calls, <<>>, TRUE)
    ELSE IF a.res # Ok THEN
        Outcome(s.self, k.temp_ret, s.calls \o a.calls, <<>>, FALSE)
    ELSE
    LET atemp == a.value
        dtemp == get_temp_indoor(IF k.presync THEN sky0 ELSE s.self)
        sp == calc_new_setpoints(atemp, dtemp, cfg.target_temp_heat,
                                 cfg.target_temp_cool)
        away == get_geofencing_away(s.self)
        execute == execute_control(away, cfg.dry_run)
        log == TempLog(cfg, atemp, dtemp, s.self, sp[1], sp[2], execute)
    IN
    IF ~execute THEN
        Outcome(s.self, DefaultMin, s.calls \o a.calls, <<log>>, FALSE)
    ELSE
    LET w == set_setpoints(s.self, sp[1], sp[2], DefaultMin, e.w1, e.wq, e.w2)
        logs == IF k.relog THEN <<log, log>> ELSE <<log>>
    IN
    IF w.res = Panicked THEN
        Outcome(w.self, 0, s.calls \o a.calls \o w.calls, logs, TRUE)
    ELSE IF w.res # Ok THEN
        Outcome(w.self, k.set_ret, s.calls \o a.calls \o w.calls, logs, FALSE)
    ELSE
        Outcome(w.self, DefaultMin, s.calls \o a.calls \o w.calls, logs, FALSE)

AsWritten == [sync_ret |-> RetryMin, temp_ret |-> RetryMin,
              set_ret |-> RetryMin, relog |-> FALSE, presync |-> FALSE]

\* a mutant of do_control: the device temperature is read before the sync
do_control_presync(sky0, cfg, e) ==
    do_control_variant(sky0, cfg, e, [AsWritten EXCEPT !.presync = TRUE])

\* a mutant of do_control: a failed sync returns the normal interval
do_control_sync_default(sky0, cfg, e) ==
    do_control_variant(sky0, cfg, e, [AsWritten EXCEPT !.sync_ret = DefaultMin])

\* a mutant of do_control: a failed sensor fetch returns the normal interval
do_control_temp_default(sky0, cfg, e) ==
    do_control_variant(sky0, cfg, e, [AsWritten EXCEPT !.temp_ret = DefaultMin])

\* a mutant of do_control: a failed setpoint write returns the normal interval
do_control_set_default(sky0, cfg, e) ==
    do_control_variant(sky0, cfg, e, [AsWritten EXCEPT !.set_ret = DefaultMin])

\* a mutant of do_control: the record is printed again after the write
do_control_relog(sky0, cfg, e) ==
    do_control_variant(sky0, cfg, e, [AsWritten EXCEPT !.relog = TRUE])

\* do_control.  e holds the replies of the network calls it makes, in the
\* order of the code: e.s1, e.sq, e.s2 for skyport.sync(), e.g for
\* awair.get_temp(), e.w1, e.wq, e.w2 for skyport.set_setpoints().
do_control(sky0, cfg, e) ==
    LET s == sync(sky0, e.s1, e.sq, e.s2) IN
    IF s.res = Panicked THEN Outcome(s.self, 0, s.calls, <<>>, TRUE)
    ELSE IF s.res # Ok THEN Outcome(s.self, RetryMin, s.calls, <<>>, FALSE)
    ELSE
    LET a == get_temp(e.g) IN
    IF a.res = Panicked THEN Outcome(s.self, 0, s.calls \o a.calls, <<>>, TRUE)
    ELSE IF a.res # Ok THEN
        Outcome(s.self, RetryMin, s.calls \o a.calls, <<>>, FALSE)
    ELSE
    LET atemp == a.value
        dtemp == get_temp_indoor(s.self)
        sp == calc_new_setpoints(atemp, dtemp, cfg.target_temp_heat,
                                 cfg.target_temp_cool)
        away == get_geofencing_away(s.self)
        execute == execute_control(away, cfg.dry_run)
        log == TempLog(cfg, atemp, dtemp, s.self, sp[1], sp[2], execute)
    IN
    IF ~execute THEN
        Outcome(s.self, DefaultMin, s.calls \o a.calls, <<log>>, FALSE)
    ELSE
    LET w == set_setpoints(s.self, sp[1], sp[2], DefaultMin, e.w1, e.wq, e.w2) IN
    IF w.res = Panicked THEN
        Outcome(w.self, 0, s.calls \o a.calls \o w.calls, <<log>>, TRUE)
    ELSE IF w.res # Ok THEN
        Outcome(w.self, RetryMin, s.calls \o a.calls \o w.calls, <<log>>, FALSE)
    ELSE
        Outcome(w.self, DefaultMin, s.calls \o a.calls \o w.calls, <<log>>, FALSE)

\* a mutant of read_config: equal targets are rejected too
read_config_strict(f) ==
    IF ~f.readable THEN [ok |-> FALSE, config |-> NoConfig]
    ELSE IF f.target_temp_heat >= f.target_temp_cool
    THEN [ok |-> FALSE, config |-> NoConfig]
    ELSE [ok |-> TRUE,
          config |-> [target_temp_heat |-> f.target_temp_heat,
                      target_temp_cool |-> f.target_temp_cool,
                      control_start |-> f.control_start,
                      control_end |-> f.control_end,
                      dry_run |-> FALSE, oneshot |-> FALSE]]

\* read_config: the file must open, read and parse, and heat <= cool
read_config(f) ==
    IF ~f.readable THEN [ok |-> FALSE, config |-> NoConfig]
    ELSE IF f.target_temp_heat > f.target_temp_cool
    THEN [ok |-> FALSE, config |-> NoConfig]
    ELSE [ok |-> TRUE,
          config |-> [target_temp_heat |-> f.target_temp_heat,
                      target_temp_cool |-> f.target_temp_cool,
                      control_start |-> f.control_start,
                      control_end |-> f.control_end,
                      dry_run |-> FALSE, oneshot |-> FALSE]]

----------------------------------------------------------------------------
(* What the outside world can answer *)

AwairDeviceReplies ==
    {TransportFailure, Reply(401, Unparseable), Reply(500, Unparseable),
     Reply(200, Unparseable),
     Reply(200, [parses |-> TRUE, devices |-> 0]),
     Reply(200, [parses |-> TRUE, devices |-> 1])}

LoginReplies ==
    {TransportFailure, Reply(401, Unparseable), Reply(200, Unparseable),
     Reply(200, [parses |-> TRUE, access_token |-> "token0",
                 has_refresh_token |-> FALSE, refresh_token |-> ""]),
     Reply(200, [parses |-> TRUE, access_token |-> "token0",
                 has_refresh_token |-> TRUE, refresh_token |-> "refresh0"])}

DeviceListReplies ==
    {TransportFailure, Reply(500, Unparseable), Reply(200, Unparseable),
     Reply(200, [parses |-> TRUE, ids |-> <<>>]),
     Reply(200, [parses |-> TRUE, ids |-> <<"device0", "device1">>])}

DeviceDatas ==
    {[csp_home |-> 260, hsp_home |-> 200, temp_indoor |-> 210,
      geofencing_away |-> FALSE, temp_outdoor |-> 50],
     [csp_home |-> 250, hsp_home |-> 190, temp_indoor |-> 225,
      geofencing_away |-> TRUE, temp_outdoor |-> 50]}

DeviceReplies ==
    {TransportFailure, Reply(401, Unparseable), Reply(500, Unparseable),
     Reply(200, Unparseable)}
    \cup {Reply(200, [parses |-> TRUE, data |-> d]) : d \in DeviceDatas}

TokenReplies ==
    {TransportFailure, Reply(401, Unparseable), Reply(200, Unparseable),
     Reply(200, [parses |-> TRUE, access_token |-> "token1"])}

PutReplies ==
    {TransportFailure, Reply(401, Unparseable), Reply(500, Unparseable),
     Reply(200, Unparseable)}

Rec(age_ms, value) ==
    [ts_ok |-> TRUE, age_ms |-> age_ms, has_temp |-> TRUE, value |-> value]

AirDatas ==
    {<<>>,
     <<Rec(60000, 235)>>,
     <<Rec(959999, 235)>>,
     <<Rec(960000, 235)>>,
     <<Rec(60000, 230), Rec(360000, 235)>>,
     <<Rec(60000, 127)>>,
     <<[ts_ok |-> FALSE, age_ms |-> 0, has_temp |-> TRUE, value |-> 235]>>,
     <<[ts_ok |-> TRUE, age_ms |-> 60000, has_temp |-> FALSE, value |-> 0]>>}

AirReplies ==
    {TransportFailure, Reply(500, Unparseable), Reply(200, Unparseable)}
    \cup {Reply(200, [parses |-> TRUE, data |-> d]) : d \in AirDatas}

\* the replies a call of sync can consume: <<first do_sync, refresh, second do_sync>>
SyncEnvs(sky) ==
    LET auth == {r \in DeviceReplies : do_sync(sky, r).res = APIError(401)}
        fresh == {q \in TokenReplies : refresh_token(sky, q).res = Ok}
    IN  {<<r, NoCall, NoCall>> : r \in DeviceReplies \ auth}
        \cup {<<r, q, NoCall>> : r \in auth, q \in TokenReplies \ fresh}
        \cup {<<r, q, r2>> : r \in auth, q \in fresh, r2 \in DeviceReplies}

\* the replies a call of set_setpoints can consume
PutEnvs(sky) ==
    LET auth == {r \in PutReplies :
                    do_set_setpoints(sky, F64Zero, F64Zero, 0, r).res = APIError(401)}
        fresh == {q \in TokenReplies : refresh_token(sky, q).res = Ok}
    IN  {<<r, NoCall, NoCall>> : r \in PutReplies \ auth}
        \cup {<<r, q, NoCall>> : r \in auth, q \in TokenReplies \ fresh}
        \cup {<<r, q, r2>> : r \in auth, q \in fresh, r2 \in PutReplies}

Env(st, g, wt) ==
    [s1 |-> st[1], sq |-> st[2], s2 |-> st[3], g |-> g,
     w1 |-> wt[1], wq |-> wt[2], w2 |-> wt[3]]

NoPut == <<NoCall, NoCall, NoCall>>

\* the replies one call of do_control can consume
Envs(sky, cfg) ==
    UNION {
        LET s == sync(sky, st[1], st[2], st[3]) IN
        IF s.res # Ok THEN {Env(st, NoCall, NoPut)}
        ELSE UNION {
            IF get_temp(g).res # Ok
               \/ ~execute_control(get_geofencing_away(s.self), cfg.dry_run)
            THEN {Env(st, g, NoPut)}
            ELSE {Env(st, g, wt) : wt \in PutEnvs(s.self)}
            : g \in AirReplies}
        : st \in SyncEnvs(sky)}

----------------------------------------------------------------------------
(* main *)

\* Bound: loop iterations followed from one start
MaxIter == 2

\* Delay, in ms, between the end of a sleep and the next reading of the clock
Lags == {0, 700}

Windows == {<<<<8, 0>>, <<13, 0>>>>, <<<<23, 0>>, <<7, 0>>>>,
            <<<<7, 0>>, <<7, 0>>>>, <<<<24, 0>>, <<7, 0>>>>}
File(heat, cool, w) ==
    [readable |-> TRUE, target_temp_heat |-> heat, target_temp_cool |-> cool,
     control_start |-> w[1], control_end |-> w[2]]
Files ==
    {NoFile, File(240, 240, <<<<8, 0>>, <<13, 0>>>>),
     File(260, 235, <<<<8, 0>>, <<13, 0>>>>)}
    \cup {File(235, 260, w) : w \in Windows}
\* the command line: whether getopts accepts it, and the flags it holds
Args == [parses : BOOLEAN, help : BOOLEAN,
         dry_run : BOOLEAN, oneshot : BOOLEAN, config_test : BOOLEAN]

HMS(h, m, sec, ms) == ((h * 3600 + m * 60 + sec) * MsPerSec) + ms
StartTimes == {HMS(7, 59, 59, 500), HMS(8, 0, 0, 0), HMS(12, 59, 50, 0),
               HMS(13, 0, 0, 0), HMS(22, 59, 59, 0), HMS(6, 50, 0, 300),
               HMS(7, 0, 0, 0), HMS(7, 0, 0, 1)}

Init ==
    /\ pc = "getopts"
    /\ file \in Files
    /\ args \in Args
    /\ clock \in StartTimes
    /\ config = NoConfig
    /\ range = NoRange
    /\ now_t = 0 /\ next = 0 /\ controlling = FALSE
    /\ interval_min = 0 /\ sleep_sec = 0
    /\ skyport = NoSession /\ calls = <<>> /\ telemetry = <<>> /\ iter = 0

Stop(where) ==
    /\ pc' = where
    /\ UNCHANGED <<file, args, config, range, clock, now_t, next, controlling,
                   interval_min, sleep_sec, skyport, calls, telemetry, iter>>

\* main: opts.parse and -h/--help; both print the usage and return
ParseOptions ==
    /\ pc = "getopts"
    /\ IF ~args.parses \/ args.help THEN Stop("usage") ELSE Stop("read_config")

\* main: read_config, the flags, parse_time_range
ReadConfig ==
    /\ pc = "read_config"
    /\ LET r == read_config(file) IN
       IF ~r.ok THEN Stop("exit1")
       ELSE IF args.config_test THEN
           /\ config' = r.config
           /\ pc' = "config_tested"
           /\ UNCHANGED <<file, args, range, clock, now_t, next, controlling,
                          interval_min, sleep_sec, skyport, calls, telemetry, iter>>
       ELSE
           LET c == [r.config EXCEPT !.dry_run = args.dry_run,
                                     !.oneshot = args.oneshot]
               rg == parse_time_range(c.control_start, c.control_end)
           IN
           /\ config' = c
           /\ range' = rg
           /\ pc' = IF rg = Panic THEN "panicked" ELSE "awair_new"
           /\ UNCHANGED <<file, args, clock, now_t, next, controlling,
                          interval_min, sleep_sec, skyport, calls, telemetry, iter>>

\* Awair::new: get_devices fails, panics on an unparseable body, or succeeds
AwairNew ==
    /\ pc = "awair_new"
    /\ \E r \in AwairDeviceReplies :
          LET g == get_devices(r) IN
          /\ calls' = g.calls
          /\ pc' = CASE g.res = Ok -> "skyport_new"
                     [] g.res = Panicked -> "panicked"
                     [] OTHER -> "exit1"
    /\ UNCHANGED <<file, args, config, range, clock, now_t, next, controlling,
                   interval_min, sleep_sec, skyport, telemetry, iter>>

\* the session login() returns for the reply that carries both tokens
LoggedIn == [email |-> "user", access_token |-> "token0",
             refresh_token |-> "refresh0", device_id |-> "",
             device_data |-> NoDeviceData]

\* the replies a call of SkyPort::new can consume
StartEnvs ==
    LET accepted == {l \in LoginReplies : login(l).res = Ok}
        listed == {d \in DeviceListReplies : device_list(LoggedIn, d).res = Ok}
    IN  {<<l, NoCall, NoCall>> : l \in LoginReplies \ accepted}
        \cup {<<l, d, NoCall>> : l \in accepted, d \in DeviceListReplies \ listed}
        \cup {<<l, d, r>> : l \in accepted, d \in listed, r \in DeviceReplies}

\* main: SkyPort::new, and exit(1) when it fails
SkyPortNew ==
    /\ pc = "skyport_new"
    /\ \E e \in StartEnvs :
          LET n == SkyPort_new(e[1], e[2], e[3]) IN
          /\ calls' = calls \o n.calls
          /\ IF n.res = Ok
             THEN skyport' = n.self /\ pc' = "loop"
             ELSE UNCHANGED skyport /\ pc' = "exit1"
    /\ UNCHANGED <<file, args, config, range, clock, now_t, next, controlling,
                   interval_min, sleep_sec, telemetry, iter>>

\* `24*60 /* sleep forever */`
ForeverMin == 1440

Min(a, b) == IF a <= b THEN a ELSE b

\* a mutant of sleep_for: the interval is taken as seconds, not minutes
sleep_for_no_conversion(nx, minutes) == Min(nx, minutes)

\* `std::cmp::min(next, interval_min as i64 * 60)`
sleep_for(nx, minutes) == Min(nx, minutes * 60)

\* a mutant of in_window: the loop controls when the time is outside
in_window_negated(r, t) == ~contains(r, t)

\* `let in_range = range.contains(&now_t)`; controlling follows it
in_window(r, t) == contains(r, t)

\* a mutant of oneshot: the flag is not looked at
oneshot_ignored(cfg) == FALSE

\* `if config.oneshot { return; }`
oneshot(cfg) == cfg.oneshot

\* One pass of the loop body, up to the sleep
Iterate ==
    /\ pc = "loop"
    /\ now_t' = clock
    /\ next' = padded_next(clock, range)
    /\ controlling' = in_window(range, clock)
    /\ IF controlling'
       THEN \E e \in Envs(skyport, config) :
              \E o \in {do_control(skyport, config, e)} :
              /\ skyport' = o.skyport
              /\ calls' = o.calls
              /\ telemetry' = o.telemetry
              /\ interval_min' = o.ret
              /\ IF o.panic
                 THEN pc' = "panicked" /\ UNCHANGED sleep_sec
                 ELSE IF oneshot(config)
                 THEN pc' = "returned" /\ UNCHANGED sleep_sec
                 ELSE /\ sleep_sec' = sleep_for(next', o.ret)
                      /\ pc' = "sleep"
       ELSE /\ calls' = <<>>
            /\ telemetry' = <<>>
            /\ interval_min' = ForeverMin
            /\ UNCHANGED skyport
            /\ IF oneshot(config)
               THEN pc' = "returned" /\ UNCHANGED sleep_sec
               ELSE /\ sleep_sec' = sleep_for(next', ForeverMin)
                    /\ pc' = "sleep"
    /\ UNCHANGED <<file, args, config, range, clock, iter>>

\* `Duration::from_secs(sleep_sec.try_into().unwrap())`, thread::sleep, and
\* the end of the loop body: its locals go out of scope, controlling stays
Sleep ==
    /\ pc = "sleep"
    /\ iter < MaxIter
    /\ IF sleep_sec < 0
       THEN /\ pc' = "panicked"
            /\ UNCHANGED <<clock, iter, now_t, next, interval_min, sleep_sec,
                           calls, telemetry>>
       ELSE /\ \E lag \in Lags :
                 clock' = (clock + sleep_sec * MsPerSec + lag) % DayMs
            /\ iter' = iter + 1
            /\ pc' = "loop"
            /\ now_t' = 0 /\ next' = 0 /\ interval_min' = 0 /\ sleep_sec' = 0
            /\ calls' = <<>> /\ telemetry' = <<>>
    /\ UNCHANGED <<file, args, config, range, controlling, skyport>>

Next == ParseOptions \/ ReadConfig \/ AwairNew \/ SkyPortNew \/ Iterate \/ Sleep

Spec == Init /\ [][Next]_vars

----------------------------------------------------------------------------
(* The time window alone: parse_time_range, contains and next_transition  *)
(* applied to every window and probe time of a bounded set.               *)

\* Bound: probe times lie within this many seconds of a window boundary
MaxOffsetSec == 2

ClockHours == {0, 7, 8, 13, 23}
ClockMinutes == {0, 59}
ClockStrings == {<<h, m>> : h \in ClockHours, m \in ClockMinutes}

Offsets == {k * MsPerSec : k \in (-MaxOffsetSec)..MaxOffsetSec}
           \cup {-500, 500, SkewSec * MsPerSec, SkewSec * MsPerSec + 500}
ProbeTimes == {(parse_from_str(s) + d + DayMs) % DayMs :
                   s \in ClockStrings, d \in Offsets}
              \cup {DayMs - 1}

InitRange ==
    /\ pc = "parse"
    /\ \E b \in ClockStrings, e \in ClockStrings :
          config = [NoConfig EXCEPT !.control_start = b, !.control_end = e]
    /\ clock \in ProbeTimes
    /\ range = NoRange
    /\ now_t = 0 /\ next = 0 /\ controlling = FALSE
    /\ file = NoFile /\ args = NoArgs
    /\ interval_min = 0 /\ sleep_sec = 0
    /\ skyport = NoSession /\ calls = <<>> /\ telemetry = <<>> /\ iter = 0

\* main: let range = parse_time_range(&config.control_start, &config.control_end)
RangeParse ==
    /\ pc = "parse"
    /\ range' = parse_time_range(config.control_start, config.control_end)
    /\ pc' = "probe"
    /\ UNCHANGED <<file, args, config, clock, now_t, next, controlling,
                   interval_min, sleep_sec, skyport, calls, telemetry, iter>>

\* main loop: now_t, next and in_range (controlling) of one reading of the clock
RangeProbe ==
    /\ pc = "probe"
    /\ now_t' = clock
    /\ next' = padded_next(clock, range)
    /\ controlling' = contains(range, clock)
    /\ pc' = "probed"
    /\ UNCHANGED <<file, args, config, range, clock,
                   interval_min, sleep_sec, skyport, calls, telemetry, iter>>

\* the clock moves on to the transition instant
RangeAdvance ==
    /\ pc = "probed"
    /\ clock' = (now_t + next_transition(now_t, range) * MsPerSec) % DayMs
    /\ pc' = "probe"
    /\ UNCHANGED <<file, args, config, range, now_t, next, controlling,
                   interval_min, sleep_sec, skyport, calls, telemetry, iter>>

\* the clock moves on to the padded wake-up instant
RangeWake ==
    /\ pc = "probed"
    /\ clock' = (now_t + next * MsPerSec) % DayMs
    /\ pc' = "probe"
    /\ UNCHANGED <<file, args, config, range, now_t, next, controlling,
                   interval_min, sleep_sec, skyport, calls, telemetry, iter>>

NextRange == RangeParse \/ RangeProbe \/ RangeAdvance \/ RangeWake

SpecRange == InitRange /\ [][NextRange]_vars

----------------------------------------------------------------------------
(* The setpoint computation alone: calc_new_setpoints and the record that *)
(* do_control builds from it, for every temperature of a bounded set.     *)

\* temperatures in tenths of a degree, below zero and equal ones included
Temps == {-55, 0, 185, 210, 235, 260}
\* sensor readings: those, and averages that fall between two tenths (23.25,
\* which is a double, 18.45 and -1/6 of a tenth, which are not)
Readings == {F64(t, 10) : t \in Temps}
            \cup {average_temp(<<Rec(0, 230), Rec(0, 235)>>),
                  average_temp(<<Rec(0, 183), Rec(0, 186)>>),
                  average_temp(<<Rec(0, 0), Rec(0, 0), Rec(0, -5)>>)}
TargetTemps == {185, 235, 260}

InitCalc ==
    /\ pc = "calc"
    /\ \E h \in TargetTemps, c \in TargetTemps :
          /\ h <= c
          /\ config = [NoConfig EXCEPT !.target_temp_heat = h,
                                       !.target_temp_cool = c]
    /\ \E d \in Temps :
          skyport = [LoggedIn EXCEPT
                        !.device_id = "device0",
                        !.device_data = [NoDeviceData EXCEPT !.temp_indoor = d]]
    /\ file = NoFile /\ args = NoArgs /\ range = NoRange /\ clock = 0
    /\ now_t = 0 /\ next = 0 /\ controlling = FALSE
    /\ interval_min = 0 /\ sleep_sec = 0
    /\ calls = <<>> /\ telemetry = <<>> /\ iter = 0

\* do_control from `let dtemp` to print_log, for a sensor reading atemp
CalcSetpoints ==
    /\ pc = "calc"
    /\ \E atemp \in Readings :
          LET dtemp == get_temp_indoor(skyport)
              sp == calc_new_setpoints(atemp, dtemp, config.target_temp_heat,
                                       config.target_temp_cool)
              away == get_geofencing_away(skyport)
              execute == execute_control(away, config.dry_run)
          IN  telemetry' = <<TempLog(config, atemp, dtemp, skyport,
                                     sp[1], sp[2], execute)>>
    /\ pc' = "computed"
    /\ UNCHANGED <<file, args, config, range, clock, now_t, next, controlling,
                   interval_min, sleep_sec, skyport, calls, iter>>

NextCalc == CalcSetpoints

SpecCalc == InitCalc /\ [][NextCalc]_vars

----------------------------------------------------------------------------
(* Claims about the time window, checked under SpecRange *)

begint == parse_from_str(config.control_start)
endt == parse_from_str(config.control_end)
WholeSecond(t) == t % MsPerSec = 0
\* the instant d milliseconds after t, on the 24-hour circle
After(t, d) == (t + d) % DayMs
\* milliseconds from t forward to the next occurrence of x strictly after t
Ahead(t, x) == IF x > t THEN x - t ELSE x - t + DayMs
\* u lies in the circular interval [t, t + d), 0 < d <= DayMs
Within(u, t, d) == (u - t + DayMs) % DayMs < d
Min2(a, b) == IF a <= b THEN a ELSE b
Abs(x) == IF x < 0 THEN -x ELSE x
\* x <= y for two f64
f64_le(x, y) == LET d == f64_sub(x, y) IN d.m = <<>> \/ d.neg

\* C1: when begin < end the window is Contiguous, and contains(t) is true
\* exactly when begin <= t <= end, for every time of day t.
C1_Contiguous ==
    (pc # "parse" /\ begint < endt) =>
        /\ range = Contiguous(begint, endt)
        /\ \A t \in ProbeTimes :
              contains(range, t) <=> (begint <= t /\ t <= endt)
        /\ pc = "probed" => (controlling <=> (begint <= now_t /\ now_t <= endt))

C1_Witness ==
    /\ pc = "probed" /\ begint < endt
    /\ now_t = endt /\ controlling

\* C2: when begin >= end the window is Split, and contains(t) is true exactly
\* when t <= end or t >= begin; with begin = end it is true at every time.
C2_Split ==
    (pc # "parse" /\ begint >= endt) =>
        /\ range = Split(endt, begint)
        /\ \A t \in ProbeTimes :
              contains(range, t) <=> (t <= endt \/ t >= begint)
        /\ pc = "probed" => (controlling <=> (now_t <= endt \/ now_t >= begint))
        /\ begint = endt => \A t \in ProbeTimes : contains(range, t)

C2_Witness ==
    /\ pc = "probed" /\ begint = endt
    /\ now_t # begint /\ controlling

\* C3 as stated: for every time of day t, next_transition(t) is strictly
\* positive, at most 86400, and t + next_transition(t) modulo 24 hours is one
\* of the two boundaries of the window.
C3_PositiveAtEveryTime ==
    pc = "probed" =>
        LET nt == next - SkewSec IN
        /\ nt = next_transition(now_t, range)
        /\ 0 < nt /\ nt <= 86400
        /\ After(now_t, nt * MsPerSec) \in {begint, endt}

\* C3, amended: that holds for a t of whole seconds, a boundary included.
\* For a t with a fraction of a second num_seconds drops the fraction of the
\* distance: next_transition(t) is at least 0 and at most 86399, it is 0
\* exactly when t is less than one second before a boundary, and
\* t + next_transition(t) is less than one second before a boundary.
C3_PositiveOnBoundary ==
    pc = "probed" =>
        LET nt == next - SkewSec
            lands == After(now_t, nt * MsPerSec)
        IN
        /\ nt = next_transition(now_t, range)
        /\ WholeSecond(now_t) =>
              /\ 0 < nt /\ nt <= 86400
              /\ lands \in {begint, endt}
        /\ ~WholeSecond(now_t) =>
              /\ 0 <= nt /\ nt < 86400
              /\ \E x \in {begint, endt} : Ahead(lands, x) < MsPerSec
              /\ nt = 0 <=> \E x \in {begint, endt} : Ahead(now_t, x) < MsPerSec

C3_Witness ==
    /\ pc = "probed" /\ ~WholeSecond(now_t)
    /\ next_transition(now_t, range) = 0
    /\ After(now_t, 500) = begint

\* C4: for a time of day t (whole seconds) next_transition(t) is the number
\* of seconds from t to the earliest boundary strictly after t on the 24-hour
\* circle: before the first stored boundary the distance to the first, from
\* the first up to (not including) the second the distance to the second, at
\* or after the second 86400 minus the seconds elapsed since the first.
C4_EarliestBoundaryAfter ==
    (pc = "probed" /\ WholeSecond(now_t)) =>
        LET nt == next_transition(now_t, range)
            first == range.f0
            second == range.f1
        IN
        /\ next = nt + SkewSec
        /\ nt * MsPerSec = Min2(Ahead(now_t, first), Ahead(now_t, second))
        /\ now_t < first => nt * MsPerSec = first - now_t
        /\ (first <= now_t /\ now_t < second) => nt * MsPerSec = second - now_t
        /\ now_t >= second => nt * MsPerSec = DayMs - (now_t - first)
        /\ nt # 0

C4_Witness ==
    /\ pc = "probed"
    /\ range = Contiguous(8 * 3600 * MsPerSec, 13 * 3600 * MsPerSec)
    /\ now_t = range.f0
    /\ next - SkewSec = 18000

\* the configured end of the window: where the active region is left
IsExit(t) == t = endt

\* C5 as stated: contains keeps the value contains(t) on [t, t + nt) and has
\* the other value at t + nt.
C5_FlipsExactlyAtTransition ==
    (pc = "probed" /\ WholeSecond(now_t)) =>
        LET nt == next_transition(now_t, range) * MsPerSec IN
        /\ \A u \in ProbeTimes :
              Within(u, now_t, nt) => (contains(range, u) <=> contains(range, now_t))
        /\ contains(range, After(now_t, nt)) # contains(range, now_t)

\* C5 amended: from outside the window contains stays false on [t, t + nt)
\* and is true at t + nt.  From inside, contains is true at t + nt as well
\* (both boundaries are inclusive); for t other than the configured end it
\* stays true on [t, t + nt], and when begin # end it is false just after.
C5_FlipsAtEntryStaysThroughExit ==
    (pc = "probed" /\ WholeSecond(now_t)) =>
        LET nt == next_transition(now_t, range) * MsPerSec
            land == After(now_t, nt)
        IN
        /\ contains(range, land)
        /\ ~controlling =>
              /\ land = begint
              /\ \A u \in ProbeTimes : Within(u, now_t, nt) => ~contains(range, u)
        /\ (controlling /\ ~IsExit(now_t)) =>
              /\ land = endt
              /\ \A u \in ProbeTimes : Within(u, now_t, nt) => contains(range, u)
              /\ begint # endt => ~contains(range, After(land, 1))
        /\ (controlling /\ IsExit(now_t) /\ begint # endt) =>
              /\ land = begint
              /\ ~contains(range, After(now_t, 1))

\* the clock has moved from a time inside the window to the transition
\* instant, the end, where contains still holds
C5_Witness ==
    /\ pc = "probe" /\ WholeSecond(now_t)
    /\ controlling /\ ~IsExit(now_t) /\ begint # endt
    /\ clock = After(now_t, next_transition(now_t, range) * MsPerSec)
    /\ clock = endt
    /\ contains(range, clock)

\* C6 as stated: for a window parsed from HH:MM strings and a whole-second t,
\* contains at t + next_transition(t) + 15 s differs from contains(t).
C6_PaddedWakeInNextState ==
    (pc = "probed" /\ WholeSecond(now_t)) =>
        contains(range, After(now_t, next * MsPerSec)) # controlling

\* C6 amended: contains at t + next_transition(t) + 15 s differs from
\* contains(t) exactly when begin # end and t is not the configured end; at
\* t = end, and for every t when begin = end, both are true.
C6_PaddedWakeUnlessAtEnd ==
    (pc = "probed" /\ WholeSecond(now_t)) =>
        LET wake == After(now_t, next * MsPerSec) IN
        /\ (begint # endt /\ ~IsExit(now_t)) => (contains(range, wake) # controlling)
        /\ (begint = endt \/ IsExit(now_t)) => (contains(range, wake) /\ controlling)

C6_Witness ==
    /\ pc = "probe" /\ WholeSecond(now_t)
    /\ begint # endt /\ controlling /\ ~IsExit(now_t)
    /\ clock = After(now_t, next * MsPerSec)
    /\ ~contains(range, clock)

----------------------------------------------------------------------------
(* Claims about the loop and the control cycle, checked under Spec *)

\* the loop body has run for the time now_t: it is about to sleep, has
\* returned (one-shot), or panicked inside the control cycle
IterationDone ==
    \/ pc \in {"sleep", "returned"}
    \/ pc = "panicked" /\ skyport # NoSession
\* do_control was called in this iteration: it starts with a do_sync
CycleRan == IterationDone /\ calls # <<>> /\ calls[1].op = "do_sync"
LastCall == calls[Len(calls)]
Made(op) == \E i \in 1..Len(calls) : calls[i].op = op
Succeeded(op) == \E i \in 1..Len(calls) : calls[i].op = op /\ calls[i].res = Ok

\* C7: when the loop sleeps, it sleeps min(next_transition(now) + 15,
\* 60 * interval) seconds, where interval is what the control cycle returned
\* (5 after a failed call, 15 otherwise) when now is inside the window and
\* 1440 otherwise; so never longer than next_transition(now) + 15.
C7_SleepIsMin ==
    pc = "sleep" =>
        LET nt == next_transition(now_t, range) IN
        /\ next = nt + 15
        /\ interval_min =
              IF ~contains(range, now_t) THEN 1440
              ELSE IF LastCall.res = Ok THEN 15 ELSE 5
        /\ sleep_sec = Min2(nt + 15, 60 * interval_min)
        /\ sleep_sec <= nt + 15

C7_Witness ==
    /\ pc = "sleep" /\ contains(range, now_t)
    /\ interval_min = 5
    /\ sleep_sec = next_transition(now_t, range) + 15
    /\ sleep_sec < 300

\* C8: when now is outside the window the loop runs no control cycle and
\* sleeps exactly next_transition(now) + 15 seconds, which is less than the
\* 24 hours of the "sleep forever" interval; the instant it wakes at is
\* inside the window, so the iteration after an inactive one is active.
C8_InactiveSleepsToEntry ==
    /\ (pc = "sleep" /\ ~contains(range, now_t)) =>
          /\ calls = <<>> /\ telemetry = <<>>
          /\ sleep_sec = next_transition(now_t, range) + 15
          /\ sleep_sec < 60 * 1440
          /\ contains(range, After(now_t, sleep_sec * MsPerSec))
    /\ (pc = "loop" /\ iter > 0 /\ ~controlling) => contains(range, clock)

C8_Witness ==
    /\ pc = "loop" /\ iter > 0 /\ ~controlling
    /\ contains(range, clock)
    /\ clock % MsPerSec # 0

\* C9: a loop iteration runs a control cycle exactly when contains(now)
\* holds for the time read at its start; an iteration that starts outside the
\* window makes no network call and prints no telemetry record.
C9_CycleIffInWindow ==
    IterationDone =>
        /\ CycleRan <=> contains(range, now_t)
        /\ controlling <=> contains(range, now_t)
        /\ ~contains(range, now_t) =>
              calls = <<>> /\ telemetry = <<>> /\ interval_min = 1440

C9_Witness ==
    /\ pc = "returned" /\ ~contains(range, now_t)
    /\ calls = <<>> /\ telemetry = <<>>

\* C10 as stated: a control cycle in which the synced state reports away, or
\* in which dry-run is configured, prints a telemetry record with
\* execute_control = false, makes no setpoint write and returns 15.
C10_SuppressedCycle ==
    (CycleRan /\ pc # "panicked"
       /\ (config.dry_run
            \/ (Succeeded("do_sync") /\ get_geofencing_away(skyport)))) =>
        /\ Len(telemetry) = 1 /\ ~telemetry[1].execute_control
        /\ ~Made("do_set_setpoints")
        /\ interval_min = 15

\* C10 amended: such a cycle never makes a setpoint write; when its sync and
\* its sensor fetch both succeed it prints exactly one telemetry record, with
\* execute_control = false, and returns 15; when one of them fails it prints
\* no record and returns 5.
C10_SuppressedCycleAfterReadings ==
    (CycleRan /\ (config.dry_run \/ get_geofencing_away(skyport))) =>
        /\ ~Made("do_set_setpoints")
        /\ (Succeeded("do_sync") /\ Succeeded("get_temp")) =>
              /\ Len(telemetry) = 1 /\ ~telemetry[1].execute_control
              /\ interval_min = 15
              /\ pc # "panicked"
        /\ (pc # "panicked" /\ ~(Succeeded("do_sync") /\ Succeeded("get_temp"))) =>
              /\ telemetry = <<>>
              /\ interval_min = 5

C10_Witness ==
    /\ CycleRan /\ pc = "sleep"
    /\ config.dry_run /\ ~get_geofencing_away(skyport)
    /\ Len(telemetry) = 1 /\ ~telemetry[1].execute_control
    /\ interval_min = 15

\* C11: a control cycle whose sync fails (no do_sync of the cycle succeeds,
\* a second attempt after a 401 included) makes no sensor fetch and no
\* setpoint write and prints no telemetry record, and do_control returns the
\* retry interval 5, not the normal 15.
C11_SyncFailureAborts ==
    (CycleRan /\ ~Succeeded("do_sync")) =>
        /\ ~Made("get_temp")
        /\ ~Made("do_set_setpoints")
        /\ telemetry = <<>>
        /\ pc # "panicked" => interval_min = 5

C11_Witness ==
    /\ CycleRan /\ pc = "sleep"
    /\ Len(calls) = 3 /\ calls[1].res = APIError(401)
    /\ calls[2].op = "refresh_token" /\ calls[2].res = Ok
    /\ calls[3].op = "do_sync" /\ calls[3].res # Ok
    /\ interval_min = 5

\* C12: a control cycle whose sensor fetch fails, a stale reading included,
\* makes no setpoint write and prints no telemetry record, and do_control
\* returns the retry interval 5.
C12_FetchFailureAborts ==
    (CycleRan /\ Made("get_temp") /\ ~Succeeded("get_temp")) =>
        /\ ~Made("do_set_setpoints")
        /\ telemetry = <<>>
        /\ pc # "panicked" => interval_min = 5

C12_Witness ==
    /\ CycleRan /\ pc = "sleep"
    /\ LastCall.op = "get_temp"
    /\ LastCall.res = APIError(ERROR_STALE_DATA)
    /\ interval_min = 5 /\ telemetry = <<>>

\* C13: the applying step is reached exactly when sync and sensor fetch
\* succeeded and neither away nor dry-run holds; a cycle that reaches it
\* returns 5 if set_setpoints fails and 15 if it succeeds; every cycle that
\* returns, returns 5 or 15.
C13_WriteDecidesInterval ==
    CycleRan =>
        /\ Made("do_set_setpoints") <=>
              /\ Succeeded("do_sync") /\ Succeeded("get_temp")
              /\ ~config.dry_run /\ ~get_geofencing_away(skyport)
        /\ (Made("do_set_setpoints") /\ pc # "panicked") =>
              interval_min = IF LastCall.op = "do_set_setpoints" /\ LastCall.res = Ok
                             THEN 15 ELSE 5
        /\ pc # "panicked" => interval_min \in {5, 15}

C13_Witness ==
    /\ CycleRan /\ pc = "sleep"
    /\ Made("do_set_setpoints") /\ ~Succeeded("do_set_setpoints")
    /\ LastCall.op = "do_set_setpoints"
    /\ interval_min = 5

\* C14: a control cycle prints exactly one telemetry record when its sync
\* and its sensor fetch succeed, and none when one of them fails; never more
\* than one.
C14_OneRecordPerCycle ==
    CycleRan =>
        /\ Len(telemetry) =
              IF Succeeded("do_sync") /\ Succeeded("get_temp") THEN 1 ELSE 0
        /\ Len(telemetry) <= 1

C14_Witness ==
    /\ CycleRan /\ pc = "sleep"
    /\ Succeeded("do_set_setpoints")
    /\ Len(telemetry) = 1

\* C15: a telemetry record carries execute_control = true exactly when a
\* setpoint write of its cycle succeeded.
C15_ExecuteControlMeansWritten ==
    (CycleRan /\ Len(telemetry) = 1) =>
        (telemetry[1].execute_control <=> Succeeded("do_set_setpoints"))

\* The calls of one cycle split at its get_temp: those of skyport.sync()
\* before it, those of skyport.set_setpoints() after it
TempAt ==
    IF Made("get_temp")
    THEN CHOOSE i \in 1..Len(calls) : calls[i].op = "get_temp"
    ELSE Len(calls) + 1
SyncCalls == SubSeq(calls, 1, TempAt - 1)
SetCalls == SubSeq(calls, TempAt + 1, Len(calls))

\* one attempt that did not end in 401; or a 401, then a failed refresh; or
\* a 401, a successful refresh, then one more attempt whatever its result
RetryOnce(seg, op) ==
    \/ /\ Len(seg) = 1
       /\ seg[1].op = op /\ seg[1].res # APIError(401)
    \/ /\ Len(seg) = 2
       /\ seg[1].op = op /\ seg[1].res = APIError(401)
       /\ seg[2].op = "refresh_token" /\ seg[2].res # Ok
    \/ /\ Len(seg) = 3
       /\ seg[1].op = op /\ seg[1].res = APIError(401)
       /\ seg[2].op = "refresh_token" /\ seg[2].res = Ok
       /\ seg[3].op = op

\* C16: each call of sync and of set_setpoints makes at most two attempts and
\* at most one token refresh; the refresh and the second attempt follow only
\* a first attempt answered 401; any other failure of the first attempt, a
\* failed refresh, and any failure of the second attempt end the call, and
\* the caller sees the failure: no sensor fetch after a failed sync, the
\* retry interval after a failed write.
C16_RetryOnceOn401 ==
    CycleRan =>
        /\ RetryOnce(SyncCalls, "do_sync")
        /\ Made("get_temp") <=> SyncCalls[Len(SyncCalls)].res = Ok
        /\ SetCalls # <<>> =>
              /\ RetryOnce(SetCalls, "do_set_setpoints")
              /\ pc # "panicked" =>
                    (interval_min = DefaultMin <=> SetCalls[Len(SetCalls)].res = Ok)

C16_Witness ==
    /\ CycleRan /\ pc = "sleep"
    /\ Len(SyncCalls) = 3 /\ SyncCalls[3].res = Ok
    /\ Len(SetCalls) = 3 /\ SetCalls[3].res = APIError(401)
    /\ interval_min = RetryMin

\* C17: in non-one-shot mode every iteration of the loop ends at its sleep,
\* whatever the network calls of its cycle were answered: no reply makes the
\* process leave the loop.
C17_LoopSurvivesEveryReply ==
    (IterationDone /\ ~config.oneshot) => pc = "sleep"

\* Bound of C18: 15 minutes, in milliseconds
StaleMs == StaleMinutes * 60 * MsPerSec

\* C18: a reading whose newest record is more than 900 seconds older than
\* the current time is rejected by get_temp with the stale-data error, and
\* its cycle computes no record and writes no setpoints.
C18_StaleReadingRejected ==
    \A i \in 1..Len(calls) :
        (/\ calls[i].op = "get_temp"
         /\ calls[i].arg # <<>>
         /\ calls[i].arg[1] > StaleMs) =>
            /\ calls[i].res = APIError(ERROR_STALE_DATA)
            /\ telemetry = <<>>
            /\ ~Made("do_set_setpoints")

\* C19: with one-shot configured the loop never reaches its sleep and never
\* starts a second iteration; when the first iteration is over the process
\* has returned, having run one control cycle if the start time is inside the
\* window and none otherwise.
C19_OneShotReturns ==
    (pc \notin {"read_config", "exit1"} /\ config.oneshot) =>
        /\ pc # "sleep"
        /\ iter = 0
        /\ (IterationDone /\ pc # "panicked") =>
              /\ pc = "returned"
              /\ now_t = clock
              /\ CycleRan <=> contains(range, now_t)
              /\ ~CycleRan => calls = <<>> /\ telemetry = <<>>
              /\ CycleRan => interval_min \in {RetryMin, DefaultMin}

C19_Witness ==
    /\ config.oneshot /\ pc = "returned" /\ iter = 0
    /\ CycleRan /\ contains(range, now_t)
    /\ interval_min = RetryMin

\* C20: a readable configuration with target_temp_heat > target_temp_cool
\* stops the process with exit status 1 before any network call and before
\* the loop; one with target_temp_heat <= target_temp_cool is loaded.
C20_BadTargetsRejected ==
    /\ (file.readable /\ file.target_temp_heat > file.target_temp_cool) =>
          /\ pc \in {"getopts", "usage", "read_config", "exit1"}
          /\ config = NoConfig
          /\ calls = <<>> /\ skyport = NoSession
          /\ telemetry = <<>> /\ iter = 0
    /\ (/\ file.readable
        /\ file.target_temp_heat <= file.target_temp_cool
        /\ pc \notin {"getopts", "usage", "read_config"}) =>
          /\ config.target_temp_heat = file.target_temp_heat
          /\ config.target_temp_cool = file.target_temp_cool
          /\ config # NoConfig

C20_Witness ==
    /\ pc = "exit1"
    /\ file.readable /\ file.target_temp_heat > file.target_temp_cool
    /\ config = NoConfig /\ calls = <<>> /\ skyport = NoSession

\* the calls logged are those of the startup (they begin with Awair's
\* get_devices), and one of them failed
StartupCallFailed ==
    /\ calls # <<>> /\ calls[1].op = "get_devices"
    /\ \E i \in 1..Len(calls) : calls[i].res # Ok

\* C21: when read_config, Awair::new or SkyPort::new fails the process ends
\* with a non-zero status (exit(1), or a panic in get_devices) and the loop
\* is never entered: no iteration, no session, no sensor fetch, no record
\* and no setpoint write.
C21_StartupFailureIsFatal ==
    /\ (pc \notin {"getopts", "usage", "read_config"} /\ ~read_config(file).ok) =>
          pc = "exit1"
    /\ StartupCallFailed => pc \in {"exit1", "panicked"}
    /\ (pc = "exit1" \/ StartupCallFailed) =>
          /\ skyport = NoSession
          /\ iter = 0 /\ ~controlling
          /\ telemetry = <<>>
          /\ ~Made("get_temp") /\ ~Made("do_set_setpoints")

C21_Witness ==
    /\ pc = "exit1" /\ StartupCallFailed
    /\ LastCall.op = "do_sync" /\ LastCall.res = APIError(401)
    /\ skyport = NoSession /\ iter = 0

----------------------------------------------------------------------------
(* Claims about the setpoint computation *)

\* ten-thousandths of a degree in a tenth: the resolution at which a
\* computed f64 is compared with the fixed-point value it stands for
PerTenth == 10 ^ 3

----------------------------------------------------------------------------
(* More claims about the control cycle and the loop, checked under Spec *)

\* C23: the calls of one cycle are those of sync, then at most one get_temp,
\* then those of at most one set_setpoints; every call but the last either
\* succeeded or was a 401 answered by a token refresh; a write is issued only
\* after a successful sync and a successful get_temp of the same cycle and
\* after the record was printed, and its setpoints are computed from the
\* device temperature that this sync stored.
C23_CycleOrder ==
    CycleRan =>
        /\ \A i \in 1..Len(SyncCalls) :
              SyncCalls[i].op \in {"do_sync", "refresh_token"}
        /\ \A i \in 1..Len(SetCalls) :
              SetCalls[i].op \in {"do_set_setpoints", "refresh_token"}
        /\ \A i \in 1..(Len(calls) - 1) :
              \/ calls[i].res = Ok
              \/ calls[i].res = APIError(401) /\ calls[i + 1].op = "refresh_token"
        /\ Len(telemetry) = 1 =>
              /\ Succeeded("do_sync") /\ Succeeded("get_temp")
              /\ telemetry[1].daikin_indoor_temp = skyport.device_data.temp_indoor
              /\ <<telemetry[1].new_heat_setpoint, telemetry[1].new_cool_setpoint>>
                    = calc_new_setpoints(telemetry[1].awair_temp,
                                         skyport.device_data.temp_indoor,
                                         config.target_temp_heat,
                                         config.target_temp_cool)
        /\ SetCalls # <<>> =>
              /\ SyncCalls[Len(SyncCalls)].res = Ok
              /\ calls[TempAt].res = Ok
              /\ Len(telemetry) = 1
              /\ RetryOnce(SetCalls, "do_set_setpoints")
              /\ \A i \in 1..Len(SetCalls) :
                    SetCalls[i].op = "do_set_setpoints" =>
                       /\ SetCalls[i].arg[1] = format_1(telemetry[1].new_heat_setpoint)
                       /\ SetCalls[i].arg[2] = format_1(telemetry[1].new_cool_setpoint)

C23_Witness ==
    /\ CycleRan /\ pc = "sleep" /\ iter = 1
    /\ Len(SyncCalls) = 3 /\ Succeeded("get_temp")
    /\ Len(SetCalls) = 1 /\ SetCalls[1].res = Ok
    /\ telemetry[1].awair_temp = F64(2325, 100)
    /\ telemetry[1].daikin_indoor_temp = 210
    /\ telemetry[1].new_heat_setpoint = F64(2125, 100)
    /\ SetCalls[1].arg[1] = 212

\* milliseconds from the time of day t to the time of day u, going forward
Elapsed(t, u) == (u - t + DayMs) % DayMs

\* C24: every setpoint write holds for the normal interval (15 minutes); the
\* sleep after a cycle whose write succeeded is at most 15 minutes; and when
\* the loop wakes inside the window after such a cycle, the hold of that
\* write, counted from the start of its cycle, has not yet expired.
C24_HoldOutlastsSleep ==
    [][(pc = "sleep" /\ pc' = "loop" /\ Succeeded("do_set_setpoints")) =>
          /\ \A i \in 1..Len(calls) :
                calls[i].op = "do_set_setpoints" => calls[i].arg[3] = DefaultMin
          /\ sleep_sec <= DefaultMin * 60
          /\ contains(range, clock') =>
                Elapsed(now_t, clock') <= LastCall.arg[3] * 60 * MsPerSec]_vars

\* the control cycle of this iteration returned the normal interval
CycleCompleted == CycleRan /\ interval_min = DefaultMin
\* the control cycle of this iteration returned the retry interval
CycleFailed == CycleRan /\ interval_min = RetryMin

SleepBounds(least) ==
    /\ sleep_sec >= 0
    /\ pc = "sleep" =>
          /\ sleep_sec >= least
          /\ sleep_sec <= ForeverMin * 60
          /\ CycleCompleted => sleep_sec <= DefaultMin * 60
          /\ CycleFailed => sleep_sec <= RetryMin * 60

\* C25: the number of seconds the loop sleeps is at least 16 and at most
\* 86400, at most 900 after a completed cycle and at most 300 after a failed
\* one, so its conversion to an unsigned duration never fails.
C25_SleepAtLeast16 == SleepBounds(SkewSec + 1)

\* C25, amended: as above with a least sleep of 15 seconds, which happens
\* when the clock is read less than one second before a window boundary.
C25_SleepAtLeast15 == SleepBounds(SkewSec)

C25_Witness ==
    /\ pc = "sleep" /\ sleep_sec = SkewSec
    /\ next_transition(now_t, range) = 0
    /\ now_t # begint /\ now_t # endt

\* every record has heat <= cool, and every write has heat <= cool and, its
\* setpoints being rounded to one decimal, a gap within a tenth of the
\* targets' gap
OrderKept ==
    /\ config.target_temp_heat <= config.target_temp_cool
    /\ \A i \in 1..Len(telemetry) :
          f64_le(telemetry[i].new_heat_setpoint, telemetry[i].new_cool_setpoint)
    /\ \A i \in 1..Len(calls) :
          calls[i].op = "do_set_setpoints" =>
             /\ calls[i].arg[1] <= calls[i].arg[2]
             /\ Abs((calls[i].arg[2] - calls[i].arg[1])
                    - (config.target_temp_cool - config.target_temp_heat)) <= 1

\* new_cool - new_heat of the record, as f64 subtraction gives it
GapOf(log) == f64_sub(log.new_cool_setpoint, log.new_heat_setpoint)

\* C26 as stated: in every record new_cool - new_heat equals
\* target_cool - target_heat, and every record and every write has
\* heat <= cool.
C26_GapExact ==
    /\ OrderKept
    /\ \A i \in 1..Len(telemetry) :
          GapOf(telemetry[i]) = f64_sub(F64(config.target_temp_cool, 10),
                                       F64(config.target_temp_heat, 10))

\* C26, amended: in every record new_cool - new_heat equals
\* target_cool - target_heat to four decimals (each f64 subtraction rounds,
\* so the last places can differ), and every record and every write has
\* heat <= cool.
C26_GapPreserved ==
    /\ OrderKept
    /\ \A i \in 1..Len(telemetry) :
          Scaled(GapOf(telemetry[i]), 10 * PerTenth)
             = (config.target_temp_cool - config.target_temp_heat) * PerTenth

C26_Witness ==
    /\ CycleRan /\ Succeeded("do_set_setpoints")
    /\ telemetry[1].awair_temp = F64(127, 10)
    /\ telemetry[1].daikin_indoor_temp = 210
    /\ config.target_temp_heat = 235 /\ config.target_temp_cool = 260
    /\ GapOf(telemetry[1]) # F64(25, 10)
    /\ LastCall.arg[1] = 318 /\ LastCall.arg[2] = 343

\* C27: across the sync, refresh and set_setpoints calls of a cycle, the
\* cached device data changes only if a do_sync of the cycle succeeded, the
\* access token changes only if a token refresh of the cycle succeeded, and
\* the email, the refresh token and the device id do not change.
C27_SessionFrame ==
    [][(pc = "loop" /\ skyport # NoSession) =>
          /\ skyport'.email = skyport.email
          /\ skyport'.refresh_token = skyport.refresh_token
          /\ skyport'.device_id = skyport.device_id
          /\ skyport'.device_data # skyport.device_data =>
                \E i \in 1..Len(calls') :
                    /\ calls'[i].op = "do_sync" /\ calls'[i].res = Ok
                    /\ \A j \in (i + 1)..Len(calls') : calls'[j].op # "do_sync"
          /\ skyport'.access_token # skyport.access_token =>
                \E i \in 1..Len(calls') :
                    calls'[i].op = "refresh_token" /\ calls'[i].res = Ok]_vars

C27_Witness ==
    /\ CycleRan /\ pc = "sleep"
    /\ Len(calls) = 3 /\ calls[1].res = APIError(401)
    /\ calls[2].op = "refresh_token" /\ calls[2].res = Ok
    /\ calls[3].op = "do_sync" /\ calls[3].res = HTTPError
    /\ skyport.access_token = "token1"
    /\ skyport.device_data \in DeviceDatas
    /\ skyport.email = "user" /\ skyport.refresh_token = "refresh0"
    /\ skyport.device_id = "device0"

====
